---- MODULE Spec2Model ----
(***************************************************************************)
(* The email-processing workflow of backend-email-automation: the graph of *)
(* src/graph.py driving the node and router functions of src/nodes.py over *)
(* the run state (the GraphState dictionary initialised in main.py).       *)
(*                                                                         *)
(* One action per node function and one per conditional edge (the router   *)
(* function together with the edge mapping of graph.py).  The state        *)
(* dictionary is one record mutated in place: a node's returned keys       *)
(* overwrite the record's keys, and the in-place mutations of the routers  *)
(* (pop, assignment) act on the same record.                               *)
(*                                                                         *)
(* External collaborators (mail provider, the five LLM chains) are         *)
(* nondeterministic: each call either returns a value drawn from a small   *)
(* set or raises.                                                          *)
(***************************************************************************)
EXTENDS Naturals, Sequences, FiniteSets, TLC

\* ---- bounds of the model -------------------------------------------------
MaxEmails == 3
MaxQueries == 2
MaxRouteTrials == 4

\* ---- program constants ---------------------------------------------------
MAX_TRIALS == 3

Categories == {"product_enquiry", "feedback_or_complaint", "unrelated"}
OtherCategories == {"", "other"}
Queries == {"q1", "q2"}
Judgments == {"classifier", "planner", "retriever", "drafter", "verifier"}
CallNames == Judgments \cup {"fetch", "write", "pop"}

\* A fetched list of n messages; a message is its identifier.
Inbox(n) == [i \in 1..n |-> i]
QueryLists == UNION {[1..k -> Queries] : k \in 0..MaxQueries}

None == 0
NoDraft == [msg |-> 0, n |-> 0]
NoCalls == [c \in CallNames |-> 0]
NoResult == [provider_ok |-> TRUE, raised |-> FALSE, value |-> "not called"]
NoVerdict == [msg |-> None, draft |-> NoDraft, send |-> FALSE]
Use(c, m) == [call |-> c, msg |-> m]

Front(s) == SubSeq(s, 1, Len(s) - 1)
Last(s) == s[Len(s)]
Bump(f, c) == [f EXCEPT ![c] = @ + 1]

VARIABLES
    emails,               \* state["emails"]
    current_email,        \* state["current_email"]
    email_category,       \* state["email_category"]
    generated_email,      \* state["generated_email"]
    rag_queries,          \* state["rag_queries"]
    retrieved_documents,  \* state["retrieved_documents"]
    writer_messages,      \* state["writer_messages"]
    sendable,             \* state["sendable"]
    trials,               \* state["trials"]
    pc,                   \* the node or router the graph runs next
    error,                \* the exception that ended the run, if any
    steps,                \* node executions so far
    calls,                \* collaborator calls and pops since the last Classify began
    failures,             \* collaborators whose call has raised
    lastRoute,            \* the value the last router returned
    fetched,              \* the list load_new_emails stored
    resolved,             \* the pops so far: which message, on which path
    draft_result,         \* what EmailTools.create_draft_reply last gave its caller
    writes,               \* the mailbox write calls so far, with their arguments
    used,                 \* (collaborator, message) of the calls since the last Classify began
    history,              \* the "history" the last Drafter call was given
    judged,               \* the last Verifier call: its two arguments and its verdict
    given,                \* state["emails"] of the state the run was started with
    address,              \* the email address the service is detected for
    engine_service,       \* EmailTools.service_type (nodes.py)
    api_service,          \* current_service (deploy_api.py)
    initialized,          \* EnhancedOutlookTools._initialized
    token,                \* OutlookTools.token
    tool_pc,              \* the steps the running gateway operation has still to take
    tool_ops,             \* gateway operations started so far
    events                \* initialize() outcomes and provider requests, in order

state == <<emails, current_email, email_category, generated_email, rag_queries,
           retrieved_documents, writer_messages, sendable, trials>>
hist == <<resolved, draft_result, writes, used, history, judged, given>>
obs == <<error, steps, calls, failures, lastRoute, fetched, hist>>
workflow == <<state, pc, obs>>
detection == <<address, engine_service, api_service>>
outlook == <<initialized, token, tool_pc, tool_ops, events>>
aux == <<detection, outlook>>
vars == <<workflow, aux>>

\* Nothing outside the workflow has happened: no address looked at, the
\* Outlook client as its constructor leaves it.
NoAddress == <<>>
AuxInit ==
    /\ address = NoAddress
    /\ engine_service = "unset"
    /\ api_service = "unset"
    /\ initialized = FALSE
    /\ token = "none"
    /\ tool_pc = <<>>
    /\ tool_ops = 0
    /\ events = <<>>

\* main.py, initial_state
initial_state ==
    /\ emails = <<>>
    /\ current_email = None
    /\ email_category = ""
    /\ generated_email = NoDraft
    /\ rag_queries = <<>>
    /\ retrieved_documents = <<>>
    /\ writer_messages = <<>>
    /\ sendable = FALSE
    /\ trials = 0

Init ==
    /\ initial_state
    /\ given = emails
    /\ pc = "load_inbox_emails"
    /\ error = "none"
    /\ steps = 0
    /\ calls = NoCalls
    /\ failures = {}
    /\ lastRoute = "none"
    /\ fetched = <<>>
    /\ resolved = <<>>
    /\ draft_result = NoResult
    /\ writes = <<>>
    /\ used = {}
    /\ history = <<>>
    /\ judged = NoVerdict
    /\ AuxInit

\* An exception leaves a node: astream raises, main() prints and re-raises.
Raise(e) ==
    /\ pc' = "Aborted"
    /\ error' = e


\* ---- the mailbox gateway (EmailTools) --------------------------------------

\* EmailTools.fetch_unanswered_emails: the provider's list, or [] when it raises.
EmailTools_fetch_unanswered_emails(ok, n) ==
    IF ok THEN Inbox(n) ELSE <<>>

\* ---- nodes ---------------------------------------------------------------

\* load_new_emails with neither try/except: a failed fetch leaves the node.
load_new_emails_Propagates ==
    /\ pc = "load_inbox_emails"
    /\ calls' = Bump(calls, "fetch")
    /\ steps' = steps + 1
    /\ \/ /\ \E n \in 0..MaxEmails :
                /\ emails' = Inbox(n)
                /\ fetched' = Inbox(n)
          /\ pc' = "is_email_inbox_empty"
          /\ UNCHANGED <<current_email, email_category, generated_email,
                         rag_queries, retrieved_documents, writer_messages,
                         sendable, trials, error, failures, lastRoute, hist, aux>>
       \/ /\ failures' = failures \cup {"fetch"}
          /\ Raise("FetchError")
          /\ UNCHANGED <<state, lastRoute, fetched, hist, aux>>

\* load_new_emails adding the fetched list to the queue it found
load_new_emails_Merges ==
    /\ pc = "load_inbox_emails"
    /\ \E ok \in BOOLEAN, n \in 0..MaxEmails :
          /\ emails' = emails \o EmailTools_fetch_unanswered_emails(ok, n)
          /\ fetched' = EmailTools_fetch_unanswered_emails(ok, n)
          /\ failures' = IF ok THEN failures ELSE failures \cup {"fetch"}
    /\ calls' = Bump(calls, "fetch")
    /\ pc' = "is_email_inbox_empty"
    /\ steps' = steps + 1
    /\ UNCHANGED <<current_email, email_category, generated_email, rag_queries,
                   retrieved_documents, writer_messages, sendable, trials,
                   error, lastRoute, hist, aux>>

load_new_emails ==
    /\ pc = "load_inbox_emails"
    /\ \E ok \in BOOLEAN, n \in 0..MaxEmails :
          /\ emails' = EmailTools_fetch_unanswered_emails(ok, n)
          /\ fetched' = EmailTools_fetch_unanswered_emails(ok, n)
          /\ failures' = IF ok THEN failures ELSE failures \cup {"fetch"}
    /\ calls' = Bump(calls, "fetch")
    /\ pc' = "is_email_inbox_empty"
    /\ steps' = steps + 1
    /\ UNCHANGED <<current_email, email_category, generated_email, rag_queries,
                   retrieved_documents, writer_messages, sendable, trials,
                   error, lastRoute, hist, aux>>

is_email_inbox_empty ==
    /\ pc = "is_email_inbox_empty"
    /\ pc' = "check_new_emails"
    /\ steps' = steps + 1
    /\ UNCHANGED <<state, error, calls, failures, lastRoute, fetched, hist, aux>>

\* categorize_email reading the first email instead of the last
categorize_email_TakesFirst ==
    /\ pc = "categorize_email"
    /\ steps' = steps + 1
    /\ IF emails = <<>>
       THEN /\ Raise("IndexError")
            /\ UNCHANGED <<state, calls, failures, lastRoute, fetched, hist, aux>>
       ELSE \/ /\ \E c \in Categories : email_category' = c
               /\ current_email' = Head(emails)
               /\ calls' = Bump(NoCalls, "classifier")
               /\ used' = {Use("classifier", Head(emails))}
               /\ pc' = "route_email_based_on_category"
               /\ UNCHANGED <<emails, generated_email, rag_queries,
                              retrieved_documents, writer_messages, sendable,
                              trials, error, failures, lastRoute, fetched, given, aux,
                              resolved, draft_result, writes, history, judged>>
            \/ /\ calls' = Bump(NoCalls, "classifier")
               /\ used' = {Use("classifier", Head(emails))}
               /\ failures' = failures \cup {"classifier"}
               /\ Raise("JudgmentError")
               /\ UNCHANGED <<state, lastRoute, fetched, given, aux, resolved, draft_result,
                              writes, history, judged>>

categorize_email ==
    /\ pc = "categorize_email"
    /\ steps' = steps + 1
    /\ IF emails = <<>>
       THEN \* state["emails"][-1] raises IndexError
            /\ Raise("IndexError")
            /\ UNCHANGED <<state, calls, failures, lastRoute, fetched, hist, aux>>
       ELSE \/ /\ \E c \in Categories : email_category' = c
               /\ current_email' = Last(emails)
               /\ calls' = Bump(NoCalls, "classifier")
               /\ used' = {Use("classifier", Last(emails))}
               /\ pc' = "route_email_based_on_category"
               /\ UNCHANGED <<emails, generated_email, rag_queries,
                              retrieved_documents, writer_messages, sendable,
                              trials, error, failures, lastRoute, fetched, given, aux,
                              resolved, draft_result, writes, history, judged>>
            \/ /\ calls' = Bump(NoCalls, "classifier")
               /\ used' = {Use("classifier", Last(emails))}
               /\ failures' = failures \cup {"classifier"}
               /\ Raise("JudgmentError")
               /\ UNCHANGED <<state, lastRoute, fetched, given, aux, resolved, draft_result,
                              writes, history, judged>>

construct_rag_queries ==
    /\ pc = "construct_rag_queries"
    /\ steps' = steps + 1
    /\ calls' = Bump(calls, "planner")
    /\ used' = used \cup {Use("planner", current_email)}
    /\ \/ /\ \E qs \in QueryLists : rag_queries' = qs
          /\ pc' = "retrieve_from_rag"
          /\ UNCHANGED <<emails, current_email, email_category, generated_email,
                         retrieved_documents, writer_messages, sendable, trials,
                         error, failures, lastRoute, fetched, given, aux>>
       \/ /\ failures' = failures \cup {"planner"}
          /\ Raise("JudgmentError")
          /\ UNCHANGED <<state, lastRoute, fetched, given, aux>>
    /\ UNCHANGED <<resolved, draft_result, writes, history, judged>>

\* the distinct queries of qs, in the order of their first occurrence
RECURSIVE DedupSeq(_)
DedupSeq(qs) ==
    IF qs = <<>> THEN <<>>
    ELSE LET f == DedupSeq(Front(qs))
         IN IF \E i \in 1..Len(f) : f[i] = Last(qs) THEN f ELSE Append(f, Last(qs))

\* retrieve_from_rag asking each distinct query once
RagBlocks_Dedup(qs) ==
    [i \in 1..Len(DedupSeq(qs)) |-> [query |-> DedupSeq(qs)[i], answer |-> "rag_result"]]

\* final_answer += query + "\n" + rag_result + "\n\n", one block per query
RagBlocks(qs) == [i \in 1..Len(qs) |-> [query |-> qs[i], answer |-> "rag_result"]]

retrieve_from_rag ==
    /\ pc = "retrieve_from_rag"
    /\ steps' = steps + 1
    /\ \/ /\ retrieved_documents' = RagBlocks(rag_queries)
          /\ calls' = [calls EXCEPT !["retriever"] = @ + Len(rag_queries)]
          /\ pc' = "email_writer"
          /\ UNCHANGED <<emails, current_email, email_category, generated_email,
                         rag_queries, writer_messages, sendable, trials,
                         error, failures, lastRoute, fetched, hist, aux>>
       \/ \E j \in 1..Len(rag_queries) :   \* the j-th Retriever call raises
             /\ calls' = [calls EXCEPT !["retriever"] = @ + j]
             /\ failures' = failures \cup {"retriever"}
             /\ Raise("JudgmentError")
             /\ UNCHANGED <<state, lastRoute, fetched, hist, aux>>

\* write_draft_email handing the Drafter an empty history on every call
write_draft_email_FreshHistory ==
    /\ pc = "email_writer"
    /\ steps' = steps + 1
    /\ calls' = Bump(calls, "drafter")
    /\ used' = used \cup {Use("drafter", current_email)}
    /\ history' = <<>>
    /\ \/ /\ generated_email' = [msg |-> current_email, n |-> trials + 1]
          /\ trials' = trials + 1
          /\ writer_messages' = Append(writer_messages,
                [kind |-> "Draft", msg |-> current_email, n |-> trials + 1])
          /\ pc' = "email_proofreader"
          /\ UNCHANGED <<emails, current_email, email_category, rag_queries,
                         retrieved_documents, sendable, error, failures,
                         lastRoute, fetched, given, aux>>
       \/ /\ failures' = failures \cup {"drafter"}
          /\ Raise("JudgmentError")
          /\ UNCHANGED <<state, lastRoute, fetched, given, aux>>
    /\ UNCHANGED <<resolved, draft_result, writes, judged>>

write_draft_email ==
    /\ pc = "email_writer"
    /\ steps' = steps + 1
    /\ calls' = Bump(calls, "drafter")
    /\ used' = used \cup {Use("drafter", current_email)}
    /\ history' = writer_messages
    /\ \/ /\ generated_email' = [msg |-> current_email, n |-> trials + 1]
          /\ trials' = trials + 1
          /\ writer_messages' = Append(writer_messages,
                [kind |-> "Draft", msg |-> current_email, n |-> trials + 1])
          /\ pc' = "email_proofreader"
          /\ UNCHANGED <<emails, current_email, email_category, rag_queries,
                         retrieved_documents, sendable, error, failures,
                         lastRoute, fetched, given, aux>>
       \/ /\ failures' = failures \cup {"drafter"}
          /\ Raise("JudgmentError")
          /\ UNCHANGED <<state, lastRoute, fetched, given, aux>>
    /\ UNCHANGED <<resolved, draft_result, writes, judged>>

\* verify_generated_email keeping a verdict of TRUE once one was given
verify_generated_email_KeepsVerdict ==
    /\ pc = "email_proofreader"
    /\ steps' = steps + 1
    /\ calls' = Bump(calls, "verifier")
    /\ used' = used \cup {Use("verifier", current_email)}
    /\ \/ /\ \E send \in BOOLEAN :
                /\ sendable' = (sendable \/ send)
                /\ judged' = [msg |-> current_email, draft |-> generated_email,
                              send |-> send]
          /\ writer_messages' = Append(writer_messages,
                [kind |-> "Proofreader Feedback", msg |-> generated_email.msg,
                 n |-> generated_email.n])
          /\ pc' = "must_rewrite"
          /\ UNCHANGED <<emails, current_email, email_category, generated_email,
                         rag_queries, retrieved_documents, trials, error,
                         failures, lastRoute, fetched, given, aux>>
       \/ /\ failures' = failures \cup {"verifier"}
          /\ Raise("JudgmentError")
          /\ UNCHANGED <<state, lastRoute, fetched, given, aux, judged>>
    /\ UNCHANGED <<resolved, draft_result, writes, history>>

verify_generated_email ==
    /\ pc = "email_proofreader"
    /\ steps' = steps + 1
    /\ calls' = Bump(calls, "verifier")
    /\ used' = used \cup {Use("verifier", current_email)}
    /\ \/ /\ \E send \in BOOLEAN :
                /\ sendable' = send
                /\ judged' = [msg |-> current_email, draft |-> generated_email,
                              send |-> send]
          /\ writer_messages' = Append(writer_messages,
                [kind |-> "Proofreader Feedback", msg |-> generated_email.msg,
                 n |-> generated_email.n])
          /\ pc' = "must_rewrite"
          /\ UNCHANGED <<emails, current_email, email_category, generated_email,
                         rag_queries, retrieved_documents, trials, error,
                         failures, lastRoute, fetched, given, aux>>
       \/ /\ failures' = failures \cup {"verifier"}
          /\ Raise("JudgmentError")
          /\ UNCHANGED <<state, lastRoute, fetched, given, aux, judged>>
    /\ UNCHANGED <<resolved, draft_result, writes, history>>

\* EmailTools.create_draft_reply: the provider's draft, or None when the
\* provider raises; it never raises itself.
EmailTools_create_draft_reply(ok) ==
    IF ok THEN [provider_ok |-> TRUE, raised |-> FALSE, value |-> "draft"]
    ELSE [provider_ok |-> FALSE, raised |-> FALSE, value |-> "None"]

\* the argument record of one mailbox write call
WriteCall(ok) ==
    [op |-> "create_draft_reply", msg |-> current_email,
     draft |-> generated_email, ok |-> ok, judged |-> judged]

\* create_draft_response calling the gateway a second time when the first
\* call failed
create_draft_response_Retries ==
    /\ pc = "send_email"
    /\ steps' = steps + 1
    /\ used' = used \cup {Use("write", current_email)}
    /\ \E ok \in BOOLEAN, ok2 \in BOOLEAN :
          /\ failures' = IF ok THEN failures ELSE failures \cup {"write"}
          /\ draft_result' = EmailTools_create_draft_reply(IF ok THEN ok ELSE ok2)
          /\ writes' = IF ok THEN Append(writes, WriteCall(ok))
                       ELSE Append(Append(writes, WriteCall(ok)), WriteCall(ok2))
          /\ calls' = IF ok THEN Bump(calls, "write")
                      ELSE Bump(Bump(calls, "write"), "write")
    /\ retrieved_documents' = <<>>
    /\ trials' = 0
    /\ pc' = "is_email_inbox_empty"
    /\ UNCHANGED <<emails, current_email, email_category, generated_email,
                   rag_queries, writer_messages, sendable, error, lastRoute,
                   fetched, given, aux, resolved, history, judged>>

\* create_draft_response returning no update when the write failed
create_draft_response_KeepsOnFailure ==
    /\ pc = "send_email"
    /\ steps' = steps + 1
    /\ calls' = Bump(calls, "write")
    /\ used' = used \cup {Use("write", current_email)}
    /\ \E ok \in BOOLEAN :
          /\ failures' = IF ok THEN failures ELSE failures \cup {"write"}
          /\ draft_result' = EmailTools_create_draft_reply(ok)
          /\ writes' = Append(writes, WriteCall(ok))
          /\ retrieved_documents' = IF ok THEN <<>> ELSE retrieved_documents
          /\ trials' = IF ok THEN 0 ELSE trials
    /\ pc' = "is_email_inbox_empty"
    /\ UNCHANGED <<emails, current_email, email_category, generated_email,
                   rag_queries, writer_messages, sendable, error, lastRoute,
                   fetched, given, aux, resolved, history, judged>>

\* create_draft_response replying to the message now at the end of the
\* queue (state["emails"][-1]) instead of state["current_email"]
create_draft_response_ReadsQueue ==
    /\ pc = "send_email"
    /\ steps' = steps + 1
    /\ calls' = Bump(calls, "write")
    /\ LET m == IF emails = <<>> THEN None ELSE Last(emails)
       IN /\ used' = used \cup {Use("write", m)}
          /\ \E ok \in BOOLEAN :
                /\ failures' = IF ok THEN failures ELSE failures \cup {"write"}
                /\ draft_result' = EmailTools_create_draft_reply(ok)
                /\ writes' = Append(writes, [WriteCall(ok) EXCEPT !.msg = m])
    /\ retrieved_documents' = <<>>
    /\ trials' = 0
    /\ pc' = "is_email_inbox_empty"
    /\ UNCHANGED <<emails, current_email, email_category, generated_email,
                   rag_queries, writer_messages, sendable, error, lastRoute,
                   fetched, given, aux, resolved, history, judged>>

\* The except branch is taken only when the gateway call raises; both
\* branches go on to the return.
create_draft_response ==
    /\ pc = "send_email"
    /\ steps' = steps + 1
    /\ calls' = Bump(calls, "write")
    /\ used' = used \cup {Use("write", current_email)}
    /\ \E ok \in BOOLEAN :
          /\ failures' = IF ok THEN failures ELSE failures \cup {"write"}
          /\ draft_result' = EmailTools_create_draft_reply(ok)
          /\ writes' = Append(writes, WriteCall(ok))
    /\ retrieved_documents' = <<>>
    /\ trials' = 0
    /\ pc' = "is_email_inbox_empty"
    /\ UNCHANGED <<emails, current_email, email_category, generated_email,
                   rag_queries, writer_messages, sendable, error, lastRoute,
                   fetched, given, aux, resolved, history, judged>>

\* skip_unrelated_email popping the first email (pop(0)) instead of the last
skip_unrelated_email_PopsFirst ==
    /\ pc = "skip_unrelated_email"
    /\ steps' = steps + 1
    /\ emails' = Tail(emails)
    /\ resolved' = Append(resolved, [msg |-> Head(emails), by |-> "skip"])
    /\ calls' = Bump(calls, "pop")
    /\ pc' = "is_email_inbox_empty"
    /\ UNCHANGED <<current_email, email_category, generated_email, rag_queries,
                   retrieved_documents, writer_messages, sendable, trials,
                   error, failures, lastRoute, fetched, given, aux, draft_result,
                   writes, used, history, judged>>

skip_unrelated_email ==
    /\ pc = "skip_unrelated_email"
    /\ steps' = steps + 1
    /\ emails' = Front(emails)
    /\ resolved' = Append(resolved, [msg |-> Last(emails), by |-> "skip"])
    /\ calls' = Bump(calls, "pop")
    /\ pc' = "is_email_inbox_empty"
    /\ UNCHANGED <<current_email, email_category, generated_email, rag_queries,
                   retrieved_documents, writer_messages, sendable, trials,
                   error, failures, lastRoute, fetched, given, aux, draft_result,
                   writes, used, history, judged>>

\* ---- routers and conditional edges ---------------------------------------

check_new_emails(es) ==
    IF Len(es) = 0 THEN "empty" ELSE "process"

\* the category router with its first test inverted
route_email_based_on_category_Swapped(category) ==
    IF category # "product_enquiry" /\ category # "unrelated" THEN "product related"
    ELSE IF category = "unrelated" THEN "unrelated"
    ELSE "not product related"

route_email_based_on_category(category) ==
    IF category = "product_enquiry" THEN "product related"
    ELSE IF category = "unrelated" THEN "unrelated"
    ELSE "not product related"

\* must_rewrite comparing with > instead of >=
must_rewrite_StrictBound(email_sendable, t) ==
    IF email_sendable THEN "send"
    ELSE IF t > MAX_TRIALS THEN "stop"
    ELSE "rewrite"

must_rewrite(email_sendable, t) ==
    IF email_sendable THEN "send"
    ELSE IF t >= MAX_TRIALS THEN "stop"
    ELSE "rewrite"

\* graph.py, the three add_conditional_edges mappings
is_email_inbox_empty_edges ==
    [process |-> "categorize_email", empty |-> "END"]

\* the category mapping with "unrelated" wired to the writer
categorize_email_edges_UnrelatedToWriter ==
    [r \in {"product related", "not product related", "unrelated"} |->
        CASE r = "product related" -> "construct_rag_queries"
          [] r = "not product related" -> "email_writer"
          [] r = "unrelated" -> "email_writer"]

categorize_email_edges ==
    [r \in {"product related", "not product related", "unrelated"} |->
        CASE r = "product related" -> "construct_rag_queries"
          [] r = "not product related" -> "email_writer"
          [] r = "unrelated" -> "skip_unrelated_email"]

\* the verify mapping with "stop" wired to the mailbox write
email_proofreader_edges_StopToSend ==
    [send |-> "send_email", rewrite |-> "email_writer", stop |-> "send_email"]

\* the verify mapping without an entry for "stop"
email_proofreader_edges_NoStop ==
    [send |-> "send_email", rewrite |-> "email_writer"]

\* the verify mapping with "rewrite" wired to the query planner
email_proofreader_edges_RewriteToPlanner ==
    [send |-> "send_email", rewrite |-> "construct_rag_queries",
     stop |-> "categorize_email"]

email_proofreader_edges ==
    [send |-> "send_email", rewrite |-> "email_writer", stop |-> "categorize_email"]

\* graph.py, the add_edge calls
fixed_edges ==
    {<<"load_inbox_emails", "is_email_inbox_empty">>,
     <<"construct_rag_queries", "retrieve_from_rag">>,
     <<"retrieve_from_rag", "email_writer">>,
     <<"email_writer", "email_proofreader">>,
     <<"send_email", "is_email_inbox_empty">>,
     <<"skip_unrelated_email", "is_email_inbox_empty">>}

\* the nodes that add_conditional_edges gives a router
routed_nodes == {"is_email_inbox_empty", "categorize_email", "email_proofreader"}

Route_is_email_inbox_empty ==
    /\ pc = "check_new_emails"
    /\ lastRoute' = check_new_emails(emails)
    /\ pc' = is_email_inbox_empty_edges[check_new_emails(emails)]
    /\ UNCHANGED <<state, error, steps, calls, failures, fetched, hist, aux>>

Route_categorize_email ==
    /\ pc = "route_email_based_on_category"
    /\ lastRoute' = route_email_based_on_category(email_category)
    /\ pc' = categorize_email_edges[route_email_based_on_category(email_category)]
    /\ UNCHANGED <<state, error, steps, calls, failures, fetched, hist, aux>>

\* must_rewrite that pops but leaves writer_messages as it was
Route_email_proofreader_KeepsHistory ==
    /\ pc = "must_rewrite"
    /\ lastRoute' = must_rewrite(sendable, trials)
    /\ pc' = email_proofreader_edges[must_rewrite(sendable, trials)]
    /\ IF must_rewrite(sendable, trials) \in {"send", "stop"}
       THEN /\ emails' = Front(emails)
            /\ calls' = Bump(calls, "pop")
            /\ resolved' = Append(resolved,
                  [msg |-> Last(emails), by |-> must_rewrite(sendable, trials)])
       ELSE UNCHANGED <<emails, calls, resolved>>
    /\ UNCHANGED <<current_email, email_category, generated_email, rag_queries,
                   retrieved_documents, writer_messages, sendable, trials,
                   error, steps, failures, fetched, given, aux, draft_result, writes, used, history,
                   judged>>

\* must_rewrite that clears writer_messages on "send" only
Route_email_proofreader_StopKeepsHistory ==
    /\ pc = "must_rewrite"
    /\ lastRoute' = must_rewrite(sendable, trials)
    /\ pc' = email_proofreader_edges[must_rewrite(sendable, trials)]
    /\ IF must_rewrite(sendable, trials) \in {"send", "stop"}
       THEN /\ emails' = Front(emails)
            /\ writer_messages' =
                  IF must_rewrite(sendable, trials) = "send" THEN <<>>
                  ELSE writer_messages
            /\ calls' = Bump(calls, "pop")
            /\ resolved' = Append(resolved,
                  [msg |-> Last(emails), by |-> must_rewrite(sendable, trials)])
       ELSE UNCHANGED <<emails, writer_messages, calls, resolved>>
    /\ UNCHANGED <<current_email, email_category, generated_email, rag_queries,
                   retrieved_documents, sendable, trials, error, steps,
                   failures, fetched, given, aux, draft_result, writes, used, history,
                   judged>>

\* must_rewrite with its in-place effects: on "send" and "stop" it pops the
\* last email and clears writer_messages before the edge is followed.
Route_email_proofreader ==
    /\ pc = "must_rewrite"
    /\ lastRoute' = must_rewrite(sendable, trials)
    /\ pc' = email_proofreader_edges[must_rewrite(sendable, trials)]
    /\ IF must_rewrite(sendable, trials) \in {"send", "stop"}
       THEN /\ emails' = Front(emails)
            /\ writer_messages' = <<>>
            /\ calls' = Bump(calls, "pop")
            /\ resolved' = Append(resolved,
                  [msg |-> Last(emails), by |-> must_rewrite(sendable, trials)])
       ELSE UNCHANGED <<emails, writer_messages, calls, resolved>>
    /\ UNCHANGED <<current_email, email_category, generated_email, rag_queries,
                   retrieved_documents, sendable, trials, error, steps,
                   failures, fetched, given, aux, draft_result, writes, used, history,
                   judged>>

Next ==
    \/ load_new_emails
    \/ is_email_inbox_empty
    \/ Route_is_email_inbox_empty
    \/ categorize_email
    \/ Route_categorize_email
    \/ construct_rag_queries
    \/ retrieve_from_rag
    \/ write_draft_email
    \/ verify_generated_email
    \/ Route_email_proofreader
    \/ create_draft_response
    \/ skip_unrelated_email

Spec == Init /\ [][Next]_vars


\* ---- the routers on their own ---------------------------------------------
\* The two routers that read the category and the verdict, applied to every
\* input of a bounded set (the state just after Classify or Verify returned).

InitRoute ==
    /\ pc \in {"route_email_based_on_category", "must_rewrite"}
    /\ email_category \in Categories \cup OtherCategories
    /\ sendable \in BOOLEAN
    /\ trials \in 0..MaxRouteTrials
    /\ \E n \in 1..MaxEmails : emails = Inbox(n) /\ fetched = Inbox(n)
    /\ current_email = Last(emails)
    /\ generated_email = NoDraft
    /\ rag_queries = <<>>
    /\ retrieved_documents = <<>>
    /\ writer_messages = <<>>
    /\ error = "none"
    /\ steps = 0
    /\ calls = NoCalls
    /\ failures = {}
    /\ lastRoute = "none"
    /\ resolved = <<>>
    /\ draft_result = NoResult
    /\ writes = <<>>
    /\ used = {}
    /\ history = <<>>
    /\ judged = NoVerdict
    /\ AuxInit
    /\ given = <<>>

NextRoute ==
    \/ Route_categorize_email
    \/ Route_email_proofreader

SpecRoute == InitRoute /\ [][NextRoute]_vars

GraphNodes == {"load_inbox_emails", "is_email_inbox_empty", "categorize_email",
               "construct_rag_queries", "retrieve_from_rag", "email_writer",
               "email_proofreader", "send_email", "skip_unrelated_email"}

\* the position of the router that follows a routed node
RouterOf ==
    [is_email_inbox_empty |-> "check_new_emails",
     categorize_email |-> "route_email_based_on_category",
     email_proofreader |-> "must_rewrite"]

\* ---- a run started with a queue already in the state ----------------------
\* The compiled graph is also served by deploy_api.py, whose callers supply
\* the input state; its "emails" may hold messages of an earlier run.

MaxPrior == 1

\* k messages that are not among those the provider returns
PriorQueue(k) == [i \in 1..k |-> MaxEmails + i]

InitLoad ==
    /\ \E k \in 0..MaxPrior : emails = PriorQueue(k)
    /\ given = emails
    /\ current_email = None
    /\ email_category = ""
    /\ generated_email = NoDraft
    /\ rag_queries = <<>>
    /\ retrieved_documents = <<>>
    /\ writer_messages = <<>>
    /\ sendable = FALSE
    /\ trials = 0
    /\ pc = "load_inbox_emails"
    /\ error = "none"
    /\ steps = 0
    /\ calls = NoCalls
    /\ failures = {}
    /\ lastRoute = "none"
    /\ fetched = <<>>
    /\ resolved = <<>>
    /\ draft_result = NoResult
    /\ writes = <<>>
    /\ used = {}
    /\ history = <<>>
    /\ judged = NoVerdict
    /\ AuxInit

SpecLoad == InitLoad /\ [][Next]_vars

\* ---- a run under the step limit of main.py -------------------------------
\* app.astream(initial_state, config) stops a run with GraphRecursionError
\* once recursion_limit node executions have been made and the graph has not
\* reached END. The queue is of the size the default fetch allows; to keep
\* the runs enumerable every message is classified "unrelated".

recursion_limit == 100
max_results == 50

\* the state in which load_new_emails has stored a fetched list of n messages
InitLimit ==
    /\ \E n \in 0..max_results : emails = Inbox(n) /\ fetched = Inbox(n)
    /\ given = <<>>
    /\ current_email = None
    /\ email_category = ""
    /\ generated_email = NoDraft
    /\ rag_queries = <<>>
    /\ retrieved_documents = <<>>
    /\ writer_messages = <<>>
    /\ sendable = FALSE
    /\ trials = 0
    /\ pc = "is_email_inbox_empty"
    /\ error = "none"
    /\ steps = 1
    /\ calls = Bump(NoCalls, "fetch")
    /\ failures = {}
    /\ lastRoute = "none"
    /\ resolved = <<>>
    /\ draft_result = NoResult
    /\ writes = <<>>
    /\ used = {}
    /\ history = <<>>
    /\ judged = NoVerdict
    /\ AuxInit

GraphRecursionError ==
    /\ pc \in GraphNodes
    /\ steps >= recursion_limit
    /\ Raise("GraphRecursionError")
    /\ UNCHANGED <<state, steps, calls, failures, lastRoute, fetched, hist, aux>>

NextLimit ==
    \/ /\ steps < recursion_limit
       /\ is_email_inbox_empty
    \/ /\ steps < recursion_limit
       /\ categorize_email
       /\ email_category' \in {"", "unrelated"}
    \/ /\ steps < recursion_limit
       /\ skip_unrelated_email
    \/ Route_is_email_inbox_empty
    \/ Route_categorize_email
    \/ GraphRecursionError

SpecLimit == InitLimit /\ [][NextLimit]_vars

\* ---- provider detection: the engine's and the API layer's -----------------
\* An address is a sequence of pieces of text; "@" and ".com" are pieces of
\* their own, so that splitting and the substring tests act on it as the
\* string operations of the code act on the characters.

MaxDomainParts == 2

DomainParts == {"gmail", "outlook", "hotmail", "live", "office365", "example",
                "mail.", "o", "OUTLOOK"}
Domains ==
    {d \o <<".com">> : d \in UNION {[1..k -> DomainParts] : k \in 1..MaxDomainParts}}
\* user@domain, and the same text without the "@"
Addresses == {<<"user", "@">> \o d : d \in Domains} \cup {<<"user">> \o d : d \in Domains}

WellFormed(a) ==
    /\ Cardinality({i \in 1..Len(a) : a[i] = "@"}) = 1
    /\ a[1] # "@"
    /\ a[Len(a)] # "@"

\* str.lower()
str_lower(a) == [i \in 1..Len(a) |-> IF a[i] = "OUTLOOK" THEN "outlook" ELSE a[i]]

\* str.split('@'): the list of the pieces between the separators
RECURSIVE str_split(_)
str_split(a) ==
    IF a = <<>> THEN << <<>> >>
    ELSE LET r == str_split(Tail(a))
         IN IF Head(a) = "@" THEN << <<>> >> \o r
            ELSE << <<Head(a)>> \o Head(r) >> \o Tail(r)

\* needle in hay
str_in(needle, hay) ==
    \E i \in 0..Len(hay) :
       /\ i + Len(needle) <= Len(hay)
       /\ SubSeq(hay, i + 1, i + Len(needle)) = needle

\* nodes.py, EmailServiceDetector.detect_service; split(...)[1] raises
\* IndexError when the address has no "@"
EmailServiceDetector_detect_service(email_address) ==
    LET pieces == str_split(str_lower(email_address))
    IN IF Len(pieces) < 2 THEN "IndexError"
       ELSE LET email_domain == pieces[2]
            IN IF str_in(<<"gmail", ".com">>, email_domain) THEN "gmail"
               ELSE IF \E domain \in {<<"outlook", ".com">>, <<"hotmail", ".com">>,
                                       <<"live", ".com">>} :
                          str_in(domain, email_domain)
                    THEN "outlook"
                    ELSE "gmail"

\* deploy_api.py, detect_service; every exception gives GMAIL
detect_service(email_address) ==
    LET pieces == str_split(str_lower(email_address))
    IN IF Len(pieces) < 2 THEN "gmail"
       ELSE LET email_domain == pieces[2]
            IN IF str_in(<<"gmail", ".com">>, email_domain) THEN "gmail"
               ELSE IF \E domain \in {<<"outlook", ".com">>, <<"hotmail", ".com">>,
                                       <<"live", ".com">>, <<"office365", ".com">>} :
                          str_in(domain, email_domain)
                    THEN "outlook"
                    ELSE "gmail"

InitDetect ==
    /\ initial_state
    /\ given = emails
    /\ pc = "load_inbox_emails"
    /\ error = "none"
    /\ steps = 0
    /\ calls = NoCalls
    /\ failures = {}
    /\ lastRoute = "none"
    /\ fetched = <<>>
    /\ resolved = <<>>
    /\ draft_result = NoResult
    /\ writes = <<>>
    /\ used = {}
    /\ history = <<>>
    /\ judged = NoVerdict
    /\ address \in Addresses
    /\ engine_service = "unset"
    /\ api_service = "unset"
    /\ initialized = FALSE
    /\ token = "none"
    /\ tool_pc = <<>>
    /\ tool_ops = 0
    /\ events = <<>>

\* EmailTools.__init__: self.service_type = EmailServiceDetector.detect_service(...)
EmailTools_init ==
    /\ engine_service = "unset"
    /\ engine_service' = EmailServiceDetector_detect_service(address)
    /\ UNCHANGED <<workflow, address, api_service, outlook>>

\* deploy_api.py: current_service = detect_service(default_email)
Api_detect_service ==
    /\ api_service = "unset"
    /\ api_service' = detect_service(address)
    /\ UNCHANGED <<workflow, address, engine_service, outlook>>

NextDetect ==
    \/ EmailTools_init
    \/ Api_detect_service

SpecDetect == InitDetect /\ [][NextDetect]_vars

\* ---- the Outlook client (EnhancedOutlookTools) ----------------------------
\* Gateway operations are run one after the other, as the workflow awaits
\* each before the next. A running operation is the list of the steps it has
\* still to take; an exception that leaves the operation empties the list.

MaxToolOps == 3

\* the calls each operation makes, in order: fetch_unanswered_emails calls
\* fetch_emails and fetch_draft_replies, each of which ensures again
OpSteps ==
    [fetch_unanswered_emails |->
        <<"ensure_initialized", "ensure_initialized", "_make_request",
          "ensure_initialized", "_make_request">>,
     fetch_emails |-> <<"ensure_initialized", "_make_request">>,
     fetch_draft_replies |-> <<"ensure_initialized", "_make_request">>,
     create_draft_reply |-> <<"ensure_initialized", "base_call">>,
     send_reply |-> <<"ensure_initialized", "base_call">>]

Event(k, ok) == [kind |-> k, ok |-> ok, token |-> token]

\* a gateway operation is called
StartOperation ==
    /\ tool_pc = <<>>
    /\ tool_ops < MaxToolOps
    /\ \E op \in DOMAIN OpSteps : tool_pc' = OpSteps[op]
    /\ tool_ops' = tool_ops + 1
    /\ UNCHANGED <<workflow, detection, initialized, token, events>>

\* ensure_initialized setting the flag before initialize() has returned
ensure_initialized_SetsFlagFirst ==
    /\ tool_pc # <<>>
    /\ Head(tool_pc) = "ensure_initialized"
    /\ IF initialized
       THEN /\ tool_pc' = Tail(tool_pc)
            /\ UNCHANGED <<initialized, token, events>>
       ELSE \/ /\ token' = "valid"
               /\ initialized' = TRUE
               /\ events' = Append(events, Event("initialize", TRUE))
               /\ tool_pc' = Tail(tool_pc)
            \/ /\ events' = Append(events, Event("initialize", FALSE))
               /\ initialized' = TRUE
               /\ tool_pc' = <<>>
               /\ UNCHANGED token
    /\ UNCHANGED <<workflow, detection, tool_ops>>

\* ensure_initialized: initialize() is awaited only when the flag is false;
\* it either stores a token, after which the flag is set, or raises, and the
\* exception is raised again and leaves the operation.
ensure_initialized ==
    /\ tool_pc # <<>>
    /\ Head(tool_pc) = "ensure_initialized"
    /\ IF initialized
       THEN /\ tool_pc' = Tail(tool_pc)
            /\ UNCHANGED <<initialized, token, events>>
       ELSE \/ /\ token' = "valid"
               /\ initialized' = TRUE
               /\ events' = Append(events, Event("initialize", TRUE))
               /\ tool_pc' = Tail(tool_pc)
            \/ /\ events' = Append(events, Event("initialize", FALSE))
               /\ tool_pc' = <<>>
               /\ UNCHANGED <<initialized, token>>
    /\ UNCHANGED <<workflow, detection, tool_ops>>

\* _make_request: one request to the provider with the stored token; the
\* callers catch its exception and go on, so both outcomes continue alike
make_request ==
    /\ tool_pc # <<>>
    /\ Head(tool_pc) = "_make_request"
    /\ \E ok \in BOOLEAN : events' = Append(events, Event("request", ok))
    /\ tool_pc' = Tail(tool_pc)
    /\ UNCHANGED <<workflow, detection, initialized, token, tool_ops>>

\* self.draft_email / self.send_email, which the classes under src/ do not
\* define: the call makes a provider request or raises, and its caller
\* catches the exception
base_call ==
    /\ tool_pc # <<>>
    /\ Head(tool_pc) = "base_call"
    /\ \/ \E ok \in BOOLEAN : events' = Append(events, Event("request", ok))
       \/ UNCHANGED events
    /\ tool_pc' = Tail(tool_pc)
    /\ UNCHANGED <<workflow, detection, initialized, token, tool_ops>>

NextOutlook ==
    \/ StartOperation
    \/ ensure_initialized
    \/ make_request
    \/ base_call

SpecOutlook == Init /\ [][NextOutlook]_vars

\* ---- properties ------------------------------------------------------------

Count(c) == calls[c]
Pending(m) == \E i \in 1..Len(emails) : emails[i] = m
AfterResolve == {"is_email_inbox_empty", "check_new_emails", "categorize_email", "END"}

\* C1: in every reachable state the attempt counter (trials) is in 0..3, and
\* no Draft step is about to run while trials already equals 3.
C1_AttemptBounded ==
    /\ trials \in 0..3
    /\ pc = "email_writer" => trials < 3

\* C2: when no collaborator call has failed the run never aborts, and on
\* reaching END the queue (emails) is empty.
C2_RunCompletes ==
    /\ failures = {} => pc # "Aborted"
    /\ pc = "END" => emails = <<>>

\* C3: once Verify has yielded sendable = TRUE for the current message, the
\* run goes through Finalize to the next Classify (or END) with exactly one
\* create-draft-reply call and exactly one pop, the popped message is the
\* current one, and writer_messages is empty when the next Classify begins.
C3_SendRoundTrip ==
    (Count("verifier") > 0 /\ sendable /\ ~("verifier" \in failures)) =>
        /\ pc \in {"must_rewrite", "send_email"} \cup AfterResolve
        /\ pc = "must_rewrite" =>
              Count("write") = 0 /\ Count("pop") = 0 /\ Last(emails) = current_email
        /\ pc = "send_email" => Count("write") = 0 /\ Count("pop") = 1
        /\ pc \in AfterResolve =>
              /\ Count("write") = 1
              /\ Count("pop") = 1
              /\ writer_messages = <<>>
        /\ pc # "must_rewrite" =>
              /\ ~Pending(current_email)
              /\ emails = SubSeq(fetched, 1, Len(emails))
              /\ fetched[Len(emails) + 1] = current_email

C3_Witness ==
    /\ pc = "categorize_email"
    /\ Count("verifier") > 0
    /\ sendable
    /\ Count("write") = 1
    /\ emails # <<>>

\* C4: at every Verify of a message the attempt counter equals the number of
\* Draft/Verify cycles run for that message (1, 2, 3), a message is abandoned
\* (Stop) only after three cycles for that same message, and no fourth Draft
\* is run for it.
C4_AttemptSequence ==
    /\ pc = "must_rewrite" =>
          /\ trials = Count("drafter")
          /\ Count("verifier") = Count("drafter")
          /\ trials \in 1..3
    /\ (lastRoute = "stop" /\ pc = "categorize_email") =>
          Count("drafter") = 3 /\ Count("verifier") = 3
    /\ pc = "email_writer" => Count("drafter") < 3

\* C5: a run over one feedback_or_complaint message verified not sendable
\* three times makes 3 Drafter and 3 Verifier calls, takes Stop, writes
\* nothing to the mailbox and does not abort; its queue ends empty.
C5_ScenarioB ==
    ( /\ Len(fetched) = 1
      /\ email_category = "feedback_or_complaint"
      /\ Count("verifier") = 3
      /\ ~sendable
      /\ failures = {}
      /\ pc # "must_rewrite" ) =>
        /\ Count("drafter") = 3
        /\ lastRoute = "stop"
        /\ Count("write") = 0
        /\ emails = <<>>
        /\ pc \in {"categorize_email", "is_email_inbox_empty", "check_new_emails", "END"}

\* C6: for a message classified unrelated the only steps are Classify and
\* Skip: no QueryPlanner, Retriever, Drafter, Verifier or Mailbox-write call
\* is made for it, and Skip removes exactly that message from emails.
C6_UnrelatedSkipped ==
    (email_category = "unrelated" /\ ~("classifier" \in failures)) =>
        /\ pc \in {"route_email_based_on_category", "skip_unrelated_email"} \cup AfterResolve
        /\ \A c \in {"planner", "retriever", "drafter", "verifier", "write"} : Count(c) = 0
        /\ pc \in {"route_email_based_on_category", "skip_unrelated_email"} =>
              Count("pop") = 0 /\ Last(emails) = current_email
        /\ pc \in AfterResolve =>
              /\ Count("pop") = 1
              /\ ~Pending(current_email)
              /\ emails = SubSeq(fetched, 1, Len(emails))
              /\ fetched[Len(emails) + 1] = current_email

C6_Witness ==
    /\ email_category = "unrelated"
    /\ pc = "is_email_inbox_empty"
    /\ Count("pop") = 1
    /\ Len(fetched) > 1

\* C7: when the provider's fetch fails in LoadInbox, emails is the empty
\* list, the run does not abort, and it goes LoadInbox -> CheckQueueEmpty ->
\* END without any Classifier, Drafter, Verifier or Mailbox-write call.
C7_FetchFailure ==
    "fetch" \in failures =>
        /\ emails = <<>>
        /\ error = "none"
        /\ pc \in {"is_email_inbox_empty", "check_new_emails", "END"}
        /\ pc = "END" => steps = 2 /\ lastRoute = "empty"
        /\ \A c \in Judgments \cup {"write", "pop"} : Count(c) = 0

C7_Witness ==
    /\ "fetch" \in failures
    /\ pc = "END"

\* C8: a failed judgment call (Classifier, QueryPlanner, Retriever, Drafter
\* or Verifier) does not abort the run.
C8_JudgmentFailureIsolated ==
    (failures \cap Judgments # {}) => (pc # "Aborted" /\ error = "none")

\* C9: the category router selects PlanQueries, Draft or Skip only for one of
\* the three known categories.
C9_UnknownCategoryNotRouted ==
    pc \in {"construct_rag_queries", "email_writer", "skip_unrelated_email"} =>
        email_category \in Categories

\* C10: for every (sendable, attempt), attempt in 0..4, the verify router
\* returns send iff sendable, else stop iff attempt >= 3, else rewrite, and the
\* graph maps send to Finalize, rewrite to Draft and stop to Classify.
C10_VerifyRoute ==
    lastRoute \in {"send", "rewrite", "stop"} =>
        /\ lastRoute = "send" <=> sendable
        /\ lastRoute = "stop" <=> (~sendable /\ trials >= 3)
        /\ lastRoute = "rewrite" <=> (~sendable /\ trials < 3)
        /\ lastRoute = "send" => pc = "send_email"
        /\ lastRoute = "rewrite" => pc = "email_writer"
        /\ lastRoute = "stop" => pc = "categorize_email"

C10_Witness ==
    /\ lastRoute = "stop"
    /\ trials = 3
    /\ pc = "categorize_email"


\* C11: evaluating the verify router (must_rewrite) leaves every field of the
\* run state as it was: emails, writer_messages and all the others.
C11_RouterHasNoEffect ==
    [][pc = "must_rewrite" => UNCHANGED state]_vars

\* C12: whenever Classify begins for a message, trials is 0, whichever way
\* the previous message was resolved.
C12_ClassifyStartsAtZero ==
    (pc = "categorize_email" /\ emails # <<>>) => trials = 0

\* C13: retrieved_documents is empty after every finalize and every abandon,
\* and every Draft step for a feedback_or_complaint message reads it empty.
C13_NotesReset ==
    /\ (pc \in AfterResolve /\ Len(resolved) > 0
          /\ Last(resolved).by \in {"send", "stop"}) =>
              retrieved_documents = <<>>
    /\ (pc = "email_writer" /\ email_category = "feedback_or_complaint") =>
          retrieved_documents = <<>>

\* C14: Classify runs only when emails is non-empty, on both edges into it,
\* and from Classify until the message is resolved current_email is the
\* message at the end of emails.
C14_ClassifyGuarded ==
    /\ pc = "categorize_email" => emails # <<>>
    /\ pc \in {"route_email_based_on_category", "construct_rag_queries",
               "retrieve_from_rag", "email_writer", "email_proofreader",
               "must_rewrite", "skip_unrelated_email"} =>
          /\ current_email # None
          /\ emails # <<>>
          /\ Last(emails) = current_email


InProcess == {"route_email_based_on_category", "construct_rag_queries",
              "retrieve_from_rag", "email_writer", "email_proofreader",
              "must_rewrite", "skip_unrelated_email"}

\* C15: after LoadInbox emails changes only by pops, one element each, and
\* each pop removes the current message; no message is removed twice, each
\* removal is by exactly one of send, stop or skip, a removed message is
\* never classified again, and at END every fetched message has been removed
\* exactly once.
C15_RemovedOnce ==
    /\ emails = SubSeq(fetched, 1, Len(emails))
    /\ Len(emails) + Len(resolved) = Len(fetched)
    /\ \A i \in 1..Len(resolved) :
          /\ resolved[i].by \in {"send", "stop", "skip"}
          /\ ~Pending(resolved[i].msg)
          /\ \A j \in 1..Len(resolved) : i # j => resolved[i].msg # resolved[j].msg
    /\ (Len(resolved) > 0 /\ pc \in AfterResolve \cup {"send_email"}) =>
          Last(resolved).msg = current_email
    /\ pc \in InProcess =>
          /\ Pending(current_email)
          /\ \A i \in 1..Len(resolved) : resolved[i].msg # current_email
    /\ pc = "END" =>
          \A k \in 1..Len(fetched) :
             Cardinality({i \in 1..Len(resolved) : resolved[i].msg = fetched[k]}) = 1

C15_Witness ==
    /\ pc = "END"
    /\ Len(fetched) >= 3
    /\ {resolved[i].by : i \in 1..Len(resolved)} = {"send", "stop", "skip"}

\* C16: at every route decision after Verify, writer_messages holds exactly
\* two entries (a draft, then its review) per Draft/Verify cycle run for the
\* current message, also for a message that follows a finalized, skipped or
\* abandoned one.
C16_FeedbackLogLength ==
    pc = "must_rewrite" =>
        /\ Count("verifier") = Count("drafter")
        /\ Len(writer_messages) = 2 * Count("drafter")
        /\ \A k \in 1..Count("drafter") :
              /\ writer_messages[2 * k - 1].kind = "Draft"
              /\ writer_messages[2 * k - 1].msg = current_email
              /\ writer_messages[2 * k].kind = "Proofreader Feedback"
              /\ writer_messages[2 * k].msg = current_email

C16_Witness ==
    /\ pc = "must_rewrite"
    /\ Count("drafter") = 2
    /\ Len(writer_messages) = 4
    /\ Len(resolved) > 0
    /\ Last(resolved).by = "send"

\* C17: Classify takes the last element of emails as current and every pop
\* removes that element, so a fetched queue [m1..mn] is classified and
\* resolved in the order mn, ..., m1.
C17_LastInFirstOut ==
    /\ \A i \in 1..Len(resolved) : resolved[i].msg = fetched[Len(fetched) + 1 - i]
    /\ pc \in InProcess =>
          /\ current_email = Last(emails)
          /\ current_email = fetched[Len(fetched) - Len(resolved)]

C17_Witness ==
    /\ Len(fetched) >= 3
    /\ Len(resolved) = Len(fetched)
    /\ resolved[1].msg = fetched[Len(fetched)]
    /\ Last(resolved).msg = fetched[1]


\* C18: after Classify a product_enquiry message goes to PlanQueries, then
\* Retrieve, then Draft; a feedback_or_complaint message goes straight to
\* Draft; an unrelated message goes to Skip; QueryPlanner and Retriever are
\* called only for a product_enquiry message.
C18_CategoryRouting ==
    /\ pc = "construct_rag_queries" =>
          /\ email_category = "product_enquiry"
          /\ \A c \in {"planner", "retriever", "drafter"} : Count(c) = 0
    /\ pc = "retrieve_from_rag" =>
          /\ email_category = "product_enquiry"
          /\ Count("planner") = 1
          /\ Count("retriever") = 0
          /\ Count("drafter") = 0
    /\ pc = "skip_unrelated_email" => email_category = "unrelated"
    /\ (pc = "email_writer" /\ Count("drafter") = 0) =>
          \/ /\ email_category = "product_enquiry"
             /\ Count("planner") = 1
             /\ Count("retriever") = Len(rag_queries)
          \/ /\ email_category = "feedback_or_complaint"
             /\ Count("planner") = 0
             /\ Count("retriever") = 0
    /\ (Count("planner") > 0 \/ Count("retriever") > 0) =>
          email_category = "product_enquiry"

C18_Witness ==
    /\ pc = "email_writer"
    /\ Count("drafter") = 0
    /\ email_category = "product_enquiry"
    /\ Count("retriever") = 2

\* C19: for a product_enquiry message whose QueryPlanner returned k queries
\* there are exactly k Retriever calls, one block per planned query in list
\* order (repeated queries included); when its first verification is
\* sendable there is exactly one Drafter call, one Verifier call and one
\* Finalize, after which the message is out of emails and trials is 0.
C19_ScenarioA ==
    /\ (email_category = "product_enquiry"
          /\ pc \in {"email_writer", "email_proofreader", "must_rewrite", "send_email"}) =>
          /\ Count("planner") = 1
          /\ Count("retriever") = Len(rag_queries)
          /\ Len(retrieved_documents) = Len(rag_queries)
          /\ \A i \in 1..Len(rag_queries) : retrieved_documents[i].query = rag_queries[i]
    /\ (email_category = "product_enquiry" /\ Count("verifier") = 1 /\ sendable
          /\ ~("verifier" \in failures) /\ pc \in AfterResolve) =>
          /\ Count("planner") = 1
          /\ Count("retriever") = Len(rag_queries)
          /\ Count("drafter") = 1
          /\ Count("write") = 1
          /\ Count("pop") = 1
          /\ Last(resolved) = [msg |-> current_email, by |-> "send"]
          /\ ~Pending(current_email)
          /\ trials = 0

C19_Witness ==
    /\ email_category = "product_enquiry"
    /\ pc \in AfterResolve
    /\ Count("verifier") = 1
    /\ sendable
    /\ rag_queries = <<"q1", "q1">>
    /\ Count("retriever") = 2
    /\ Count("write") = 1

\* C20: when the provider's create-draft-reply fails, the gateway operation
\* gives its caller an error outcome (it raises) instead of returning
\* normally.
C20_WriteFailureReported ==
    (draft_result.value # "not called" /\ ~draft_result.provider_ok) =>
        draft_result.raised


\* C21: over a whole run at most one create-draft-reply call is made per
\* fetched message, also when the call fails, and no send-reply call is made.
C21_NoWriteRetry ==
    /\ \A i \in 1..Len(writes) :
          /\ writes[i].op = "create_draft_reply"
          /\ \E k \in 1..Len(fetched) : fetched[k] = writes[i].msg
          /\ \A j \in 1..Len(writes) : i # j => writes[i].msg # writes[j].msg
    /\ Len(writes) <= Len(fetched)
    /\ Count("write") <= 1

C21_Witness ==
    /\ pc = "END"
    /\ Len(writes) = 2
    /\ ~writes[1].ok
    /\ writes[2].ok

\* C22: LoadInbox sets emails to exactly the fetched list, whatever emails
\* held before; no step leads back to LoadInbox, so after it the fetched list
\* is fixed and emails only holds messages of that list.
C22_LoadReplaces ==
    /\ [](pc # "load_inbox_emails" =>
            /\ Len(emails) <= Len(fetched)
            /\ emails = SubSeq(fetched, 1, Len(emails))
            /\ \A i \in 1..Len(given) : ~Pending(given[i])
            /\ resolved = <<>> => emails = fetched)
    /\ [][/\ pc' # "load_inbox_emails"
          /\ pc # "load_inbox_emails" => fetched' = fetched]_vars

C22_Witness ==
    /\ given # <<>>
    /\ pc = "categorize_email"
    /\ Len(fetched) >= 2
    /\ emails = fetched

\* C23: current_email changes only in Classify, and every QueryPlanner,
\* Drafter, Verifier and create-draft-reply call made since the last Classify
\* began was given the message that Classify made current, as was its
\* Classifier call.
C23_OneMessageAtATime ==
    /\ [](\A u \in used :
            /\ u.call # "classifier" => u.msg = current_email
            /\ (u.call = "classifier" /\ ~("classifier" \in failures)) =>
                  u.msg = current_email)
    /\ [][current_email' # current_email => pc = "categorize_email"]_vars

C23_Witness ==
    /\ Len(resolved) = 2
    /\ pc \in AfterResolve
    /\ {u.call : u \in used} = {"classifier", "planner", "drafter", "verifier", "write"}
    /\ \A u \in used : u.msg = fetched[Len(fetched) - 1]

\* C24: each Draft step adds 1 to trials, replaces generated_email and
\* appends one entry to writer_messages; the history given to the Drafter on
\* the k-th Draft of a message is the 2(k-1) entries (draft, review, ...) of
\* that message's earlier cycles, in order, and nothing of another message.
C24_DraftStep ==
    /\ [](Count("drafter") >= 1 =>
            /\ Len(history) = 2 * (Count("drafter") - 1)
            /\ \A j \in 1..(Count("drafter") - 1) :
                  /\ history[2 * j - 1].kind = "Draft"
                  /\ history[2 * j].kind = "Proofreader Feedback"
                  /\ history[2 * j - 1].msg = current_email
                  /\ history[2 * j].msg = current_email
                  /\ history[2 * j].n = history[2 * j - 1].n
                  /\ j > 1 => history[2 * j - 1].n = history[2 * j - 3].n + 1)
    /\ [][(pc = "email_writer" /\ pc' = "email_proofreader") =>
            /\ trials' = trials + 1
            /\ generated_email' # generated_email
            /\ generated_email'.msg = current_email
            /\ Len(writer_messages') = Len(writer_messages) + 1
            /\ Front(writer_messages') = writer_messages
            /\ Last(writer_messages').kind = "Draft"
            /\ Last(writer_messages').msg = current_email
            /\ history' = writer_messages]_vars

C24_Witness ==
    /\ pc = "email_proofreader"
    /\ Count("drafter") = 3
    /\ Len(history) = 4
    /\ Len(resolved) >= 1

\* C25: the Verify step sets sendable to the verdict the Verifier gave on the
\* current message and draft, appends one entry to writer_messages and
\* leaves emails, current_email, email_category, retrieved_documents,
\* generated_email and trials as they were; the route taken next is the one
\* for that verdict.
C25_VerifyStep ==
    /\ [](pc = "must_rewrite" =>
            /\ sendable = judged.send
            /\ judged.msg = current_email
            /\ judged.draft = generated_email)
    /\ [][(pc = "email_proofreader" /\ pc' = "must_rewrite") =>
            /\ sendable' = judged'.send
            /\ Len(writer_messages') = Len(writer_messages) + 1
            /\ Front(writer_messages') = writer_messages
            /\ Last(writer_messages').kind = "Proofreader Feedback"
            /\ UNCHANGED <<emails, current_email, email_category,
                           retrieved_documents, generated_email, trials>>]_vars
    /\ [][pc = "must_rewrite" =>
            /\ lastRoute' = must_rewrite(judged.send, trials)
            /\ lastRoute' = "send" <=> judged.send]_vars

C25_Witness ==
    /\ pc = "email_writer"
    /\ lastRoute = "rewrite"
    /\ ~judged.send
    /\ Len(resolved) >= 1
    /\ Last(resolved).by = "send"

\* C26: on the rewrite route the run goes back to Draft for the same message
\* with no further Classifier, QueryPlanner or Retriever call; from a
\* message's first Draft to its last Verify emails, current_email,
\* email_category and retrieved_documents stay as they were.
C26_RewriteLoop ==
    /\ [](pc \in {"email_writer", "email_proofreader", "must_rewrite"} =>
            /\ Count("classifier") = 1
            /\ Count("pop") = 0
            /\ Count("planner") = (IF email_category = "product_enquiry" THEN 1 ELSE 0)
            /\ Count("retriever") =
                  (IF email_category = "product_enquiry" THEN Len(rag_queries) ELSE 0)
            /\ Count("verifier") \in {Count("drafter"), Count("drafter") - 1})
    /\ [][(pc = "must_rewrite" /\ lastRoute' = "rewrite") =>
            /\ pc' = "email_writer"
            /\ UNCHANGED <<emails, current_email, email_category,
                           retrieved_documents>>]_vars
    /\ [][(pc = "email_writer" \/ pc = "email_proofreader") =>
            /\ emails' = emails
            /\ current_email' = current_email
            /\ email_category' = email_category
            /\ retrieved_documents' = retrieved_documents]_vars

C26_Witness ==
    /\ pc = "must_rewrite"
    /\ email_category = "product_enquiry"
    /\ Count("drafter") = 3
    /\ Count("verifier") = 3
    /\ Len(rag_queries) = 2

\* C27: with recursion_limit = 100 and a fetched queue of 0..50 messages no
\* run is ended by the step limit.
C27_WithinStepLimit ==
    error # "GraphRecursionError"

\* C28: every value the three routers can return is a key of the mapping of
\* their conditional edges, every other node has exactly one fixed edge and
\* the run follows it, and a run that has neither reached END nor been ended
\* by an exception always has a next step.
C28_TransitionTableComplete ==
    /\ [](/\ \A n \in 0..MaxEmails :
                check_new_emails(Inbox(n)) \in DOMAIN is_email_inbox_empty_edges
          /\ \A c \in Categories \cup OtherCategories :
                route_email_based_on_category(c) \in DOMAIN categorize_email_edges
          /\ \A b \in BOOLEAN, t \in 0..MaxRouteTrials :
                must_rewrite(b, t) \in DOMAIN email_proofreader_edges
          /\ \A n \in GraphNodes \ routed_nodes :
                Cardinality({e \in fixed_edges : e[1] = n}) = 1
          /\ \A n \in routed_nodes : {e \in fixed_edges : e[1] = n} = {}
          /\ pc \notin {"END", "Aborted"} => ENABLED Next)
    /\ [][(pc \in GraphNodes \ routed_nodes /\ pc' # "Aborted") =>
            <<pc, pc'>> \in fixed_edges]_vars
    /\ [][(pc \in routed_nodes /\ pc' # "Aborted") => pc' = RouterOf[pc]]_vars
    /\ [][pc = "check_new_emails" =>
            /\ lastRoute' \in DOMAIN is_email_inbox_empty_edges
            /\ pc' = is_email_inbox_empty_edges[lastRoute']]_vars
    /\ [][pc = "route_email_based_on_category" =>
            /\ lastRoute' \in DOMAIN categorize_email_edges
            /\ pc' = categorize_email_edges[lastRoute']]_vars
    /\ [][pc = "must_rewrite" =>
            /\ lastRoute' \in DOMAIN email_proofreader_edges
            /\ pc' = email_proofreader_edges[lastRoute']]_vars

C28_Witness ==
    /\ lastRoute = "stop"
    /\ pc = "route_email_based_on_category"
    /\ Len(resolved) = 2

\* C29: every create-draft-reply call is given the message of the last
\* Verify and the draft that Verify judged sendable, which is the latest
\* draft written for that message; never a draft judged not sendable or one
\* written for another message.
C29_WritesVerifiedDraft ==
    /\ \A i \in 1..Len(writes) :
          /\ writes[i].judged.send
          /\ writes[i].msg = writes[i].judged.msg
          /\ writes[i].draft = writes[i].judged.draft
          /\ writes[i].draft.msg = writes[i].msg
    /\ pc = "send_email" =>
          /\ judged.send
          /\ judged.msg = current_email
          /\ judged.draft = generated_email
          /\ generated_email = [msg |-> current_email, n |-> trials]
          /\ lastRoute = "send"

C29_Witness ==
    /\ Len(writes) = 2
    /\ writes[2].draft.n = 3
    /\ writes[2].msg = fetched[Len(fetched) - 1]
    /\ writes[1].draft.n = 1

\* C30: the run state after Finalize is the same whether the
\* create-draft-reply call succeeded or failed: the message was popped on the
\* send route before the write, trials is 0, retrieved_documents is empty
\* and the run goes on to the queue check.
C30_FinalizeIgnoresOutcome ==
    /\ [](pc = "send_email" =>
            /\ Count("pop") = 1
            /\ Count("write") = 0
            /\ Last(resolved) = [msg |-> current_email, by |-> "send"]
            /\ ~Pending(current_email))
    /\ [](Len(writes) > 0 /\ pc = "is_email_inbox_empty"
            /\ Last(resolved).by = "send" =>
               /\ Last(writes).msg = current_email
               /\ ~Pending(current_email)
               /\ trials = 0
               /\ retrieved_documents = <<>>
               /\ error = "none")
    /\ [][pc = "send_email" =>
            /\ pc' = "is_email_inbox_empty"
            /\ trials' = 0
            /\ retrieved_documents' = <<>>
            /\ UNCHANGED <<emails, current_email, email_category,
                           generated_email, rag_queries, writer_messages,
                           sendable>>]_vars

C30_Witness ==
    /\ pc = "is_email_inbox_empty"
    /\ Len(writes) > 0
    /\ ~Last(writes).ok
    /\ Last(writes).draft.n = 2
    /\ Last(resolved).by = "send"
    /\ email_category = "product_enquiry"
    /\ Len(rag_queries) = 2

\* C31: for every well-formed address the engine's detection and the API
\* layer's detection select the same provider.
C31_SameProvider ==
    (WellFormed(address) /\ engine_service # "unset" /\ api_service # "unset") =>
        engine_service = api_service

InitOk(i) == events[i].kind = "initialize" /\ events[i].ok
InitFailed(i) == events[i].kind = "initialize" /\ ~events[i].ok

\* C32: no provider request is made before an initialize() has succeeded;
\* after a successful initialize() the flag stays true and initialize() is
\* not run again; a failed initialize() leaves the flag false, and the next
\* operation runs initialize() again.
C32_InitializedOnce ==
    /\ [](/\ \A i \in 1..Len(events) :
                /\ events[i].kind = "request" =>
                      /\ events[i].token = "valid"
                      /\ \E j \in 1..(i - 1) : InitOk(j)
                /\ InitOk(i) => \A j \in (i + 1)..Len(events) :
                                   events[j].kind # "initialize"
          /\ initialized <=> \E i \in 1..Len(events) : InitOk(i)
          /\ \A op \in DOMAIN OpSteps : Head(OpSteps[op]) = "ensure_initialized")
    /\ [][initialized => initialized']_vars
    /\ [][(events' # events /\ InitFailed(Len(events))' ) =>
            ~initialized' /\ tool_pc' = <<>>]_vars
    /\ [][(tool_pc # <<>> /\ Head(tool_pc) = "ensure_initialized" /\ ~initialized) =>
            /\ Len(events') = Len(events) + 1
            /\ events'[Len(events')].kind = "initialize"]_vars

C32_Witness ==
    /\ Len(events) >= 4
    /\ InitFailed(1)
    /\ InitOk(2)
    /\ events[3].kind = "request"
    /\ events[4].kind = "request"
    /\ tool_ops = 3

====
